---- MODULE Spec2Model ----
(***************************************************************************)
(* The expiry janitor of xcommand-n8n-rental (src/janitor/janitor.py):     *)
(* the polling loop, one sweep over the container inventory, the teardown  *)
(* of an expired workspace and the pre-expiry backup notification.         *)
(*                                                                         *)
(* Time is counted in ticks of MinPerTick minutes.  A container name is a  *)
(* sequence of tokens (<<"n8n_", "u-", "a">> is n8n_u-a), a subdomain the  *)
(* same (<<"u-", "a">>), a label value a record [has, s]: has = FALSE is   *)
(* a missing key (labels.get gives None).  An expiry label's string is a   *)
(* record [kind, t, zs]: an ISO timestamp of instant t, junk, or nothing,  *)
(* followed by zs letters Z.                                               *)
(***************************************************************************)
EXTENDS Integers, Sequences, FiniteSets, TLC

\* ------------------------------------------------------------- bounds
NumContainers == 2
MaxTime == 4
MinPerTick == 5
MaxCalls == 2

\* ---------------------------------------------------- program constants
\* janitor.py:239, the pre-expiry window in minutes
BackupWindowMin == 10

Ids == 1..NumContainers
Times == 0..MaxTime
Tok(i) == <<"a", "b", "c", "d", "e">>[i]

\* ------------------------------------------------------------ values
Absent == [has |-> FALSE, s |-> ""]
Str(v) == [has |-> TRUE, s |-> v]
AbsentSub == [has |-> FALSE, s |-> <<>>]
EmptyTs == [kind |-> "empty", t |-> 0, zs |-> 0]
AbsentTs == [has |-> FALSE, s |-> EmptyTs]
Iso(t, z) == [kind |-> "iso", t |-> t, zs |-> z]
Junk(z) == [kind |-> "junk", t |-> 0, zs |-> z]
NoneDT == [some |-> FALSE, t |-> 0]
SomeDT(t) == [some |-> TRUE, t |-> t]
NoLabels ==
  [ws_new |-> Absent, ws_old |-> Absent,
   sub_new |-> AbsentSub, sub_old |-> AbsentSub,
   exp_new |-> AbsentTs, exp_old |-> AbsentTs]
NullTs == [set |-> FALSE, at |-> 0]
SetTs(t) == [set |-> TRUE, at |-> t]
\* A NULL in a text column of the registry.
NullEmail == <<>>
NoInfo == [found |-> FALSE, email |-> NullEmail, backup_sent_at |-> NullTs]
Event(op, c, ok) == [op |-> op, c |-> c, ok |-> ok]

\* Python truthiness of labels.get(key): None and "" are falsy.
TruthyStr(lv) == lv.has /\ lv.s # ""
TruthySeq(lv) == lv.has /\ lv.s # <<>>
TruthyTs(lv) == lv.has /\ ~(lv.s.kind = "empty" /\ lv.s.zs = 0)

\* ----------------------------------------------------------- helpers
\* parse_iso: "" gives None; trailing Z letters are stripped; what is left
\* is parsed by fromisoformat, whose failure gives None.
rstripZ(s) == [s EXCEPT !.zs = 0]

\* Fault variant: a value that does not parse counts as a date long past.
parse_iso_failPast(s) ==
  IF rstripZ(s).kind = "iso" THEN SomeDT(rstripZ(s).t) ELSE SomeDT(0)

\* datetime.fromisoformat(s).replace(tzinfo=timezone.utc): the clock reading
\* written in s, taken as UTC whether s carries an offset ("iso_off") or
\* not ("iso"); NoneDT stands for the ValueError on anything else.
fromisoformat(s) ==
  IF s.zs = 0 /\ s.kind \in {"iso", "iso_off"} THEN SomeDT(s.t) ELSE NoneDT

\* Fault variant: the trailing Z is not stripped.
parse_iso_noStrip(s) ==
  IF s.kind = "empty" /\ s.zs = 0 THEN NoneDT ELSE fromisoformat(s)

parse_iso(s) ==
  IF s.kind = "empty" /\ s.zs = 0 THEN NoneDT
  ELSE fromisoformat(rstripZ(s))

sub_from_container(name) ==
  IF Len(name) >= 1 /\ name[1] = "n8n_" THEN Tail(name) ELSE name

volume_name_for(sub) == <<"n8n_">> \o sub \o <<"_data">>

\* ------------------------------------------------------- label logic
\* Fault variant: a subdomain label counts as an ownership signal.
is_workspace_bySubLabel(labels, name) ==
  \/ TruthySeq(labels.sub_new)
  \/ (Len(name) >= 2 /\ name[1] = "n8n_" /\ name[2] = "u-")

is_workspace(labels, name) ==
  LET flag == IF TruthyStr(labels.ws_new) THEN labels.ws_new ELSE labels.ws_old
  IN  \/ (flag.has /\ flag.s = "true")
      \/ (Len(name) >= 2 /\ name[1] = "n8n_" /\ name[2] = "u-")

\* Fault variant: the old label key is preferred to the new one.
get_subdomain_oldFirst(labels, name) ==
  IF TruthySeq(labels.sub_old) THEN labels.sub_old.s
  ELSE IF TruthySeq(labels.sub_new) THEN labels.sub_new.s
  ELSE sub_from_container(name)

get_subdomain(labels, name) ==
  IF TruthySeq(labels.sub_new) THEN labels.sub_new.s
  ELSE IF TruthySeq(labels.sub_old) THEN labels.sub_old.s
  ELSE sub_from_container(name)

\* Fault variant: only the current key is read.
get_expiry_newOnly(labels) ==
  parse_iso(IF TruthyTs(labels.exp_new) THEN labels.exp_new.s ELSE EmptyTs)

get_expiry(labels) ==
  LET label == IF TruthyTs(labels.exp_new) THEN labels.exp_new.s
               ELSE IF TruthyTs(labels.exp_old) THEN labels.exp_old.s
               ELSE EmptyTs
  IN  parse_iso(label)

\* -------------------------------------------------------------- state
VARIABLES
  cont,       \* container id -> [name, labels, registered]: fixed at creation
  cstate,     \* container id -> "running" | "stopped" | "gone": the runtime inventory
  vols,       \* names of the volumes that exist
  rows,       \* the workspaces table: records keyed by sub
  url,        \* whether BACKUP_WEBHOOK_URL is set in the environment
  pc,         \* "start" | "loop" | "sleep": position in the main loop
  now_utc,    \* sweep_once's argument: the clock read by the main loop
  queue,      \* containers of client.containers.list still to visit
  total, with_sub, expired,   \* sweep_once's counters
  ops,        \* the external calls of the last loop iteration, in order
  lastHook,   \* container id -> outcome of the last webhook call for it,
              \* "none" before any call and once its teardown has begun
  printed,    \* the summary lines of the sweep that just ended
  arg,        \* the arguments of a helper called on its own
  ret         \* what that call returned

vars == <<cont, cstate, vols, rows, url, pc, now_utc, queue,
          total, with_sub, expired, ops, lastHook, printed, arg, ret>>

\* ------------------------------------------------------- DB helpers
\* DELETE FROM workspaces WHERE subdomain = sub; ok = FALSE: the connection
\* or the statement raised, which the helper logs and swallows.
\* Fault variant: the DELETE reports success and deletes nothing.
delete_workspace_row_noop(rs, sub, ok) == rs

\* Fault variant: the DELETE has lost its WHERE clause.
delete_workspace_row_all(rs, sub, ok) == IF ok THEN {} ELSE rs

delete_workspace_row(rs, sub, ok) ==
  IF ok THEN {r \in rs : r.sub # sub} ELSE rs

\* Fault variant: a lookup that finds nothing or fails answers with an
\* empty record instead of None.
get_workspace_info_default(rs, sub, ok) ==
  IF ok /\ \E r \in rs : r.sub = sub
  THEN LET r == CHOOSE x \in rs : x.sub = sub
       IN  [found |-> TRUE, email |-> r.email, backup_sent_at |-> r.backup_sent_at]
  ELSE [NoInfo EXCEPT !.found = TRUE]

\* SELECT user_email, backup_sent_at ...; None when no row or on an error.
get_workspace_info(rs, sub, ok) ==
  IF ok /\ \E r \in rs : r.sub = sub
  THEN LET r == CHOOSE x \in rs : x.sub = sub
       IN  [found |-> TRUE, email |-> r.email, backup_sent_at |-> r.backup_sent_at]
  ELSE NoInfo

\* Fault variant: the UPDATE has lost its WHERE clause.
mark_backup_sent_all(rs, sub, ok, t) ==
  IF ok THEN {[r EXCEPT !.backup_sent_at = SetTs(t)] : r \in rs} ELSE rs

\* UPDATE workspaces SET backup_sent_at = t WHERE subdomain = sub
mark_backup_sent(rs, sub, ok, t) ==
  IF ok
  THEN {IF r.sub = sub THEN [r EXCEPT !.backup_sent_at = SetTs(t)] ELSE r : r \in rs}
  ELSE rs

\* ------------------------------------------------- backup notifier
\* What requests.post can give: an exception, or a status and a body.
Bodies == {"ok_true", "ok_one", "ok_false", "no_ok", "list", "not_json"}
Responses ==
  {[exc |-> TRUE, status |-> 0, body |-> "not_json"]} \cup
  [exc : {FALSE}, status : {200, 201, 500}, body : Bodies]

\* Fault variant: the ok field is tested for truthiness, not for True.
trigger_backup_truthyOk(hasUrl, resp) ==
  IF ~hasUrl THEN [posted |-> FALSE, ok |-> FALSE]
  ELSE [posted |-> TRUE,
        ok |-> ~resp.exc /\ resp.status = 200 /\ resp.body \in {"ok_true", "ok_one"}]

\* Fault variant: the URL is not tested and the call is made anyway.
trigger_backup_noUrlTest(hasUrl, resp) ==
  [posted |-> TRUE,
   ok |-> ~resp.exc /\ resp.status = 200 /\ resp.body = "ok_true"]

\* The JSON body trigger_backup posts; expires_at is written with a Z.
payload(sub, email, exp) ==
  [workspace_subdomain |-> sub, user_email |-> email, expires_at |-> Iso(exp.t, 1)]

\* The call requests.post(url, json=payload, timeout=10) in the log of calls.
PostEvent(c, ok, json) == [op |-> "post", c |-> c, ok |-> ok, json |-> json]

\* trigger_backup: posted = the HTTP call was made, ok = the return value.
trigger_backup(hasUrl, resp) ==
  IF ~hasUrl THEN [posted |-> FALSE, ok |-> FALSE]
  ELSE [posted |-> TRUE,
        ok |-> ~resp.exc /\ resp.status = 200 /\ resp.body = "ok_true"]

\* ------------------------------------------------------ main cleanup
\* The outcomes of the external calls one loop iteration can make:
\*   rm, vget, vrm  container.remove, client.volumes.get, v.remove succeed
\*   del, sel, upd  the DELETE, SELECT, UPDATE statement succeeds
\*   resp           what requests.post gives
Outcomes ==
  [rm : BOOLEAN, vget : BOOLEAN, vrm : BOOLEAN, del : BOOLEAN,
   sel : BOOLEAN, upd : BOOLEAN, resp : Responses]

AllGood == [rm |-> TRUE, vget |-> TRUE, vrm |-> TRUE, del |-> TRUE,
            sel |-> TRUE, upd |-> TRUE,
            resp |-> [exc |-> FALSE, status |-> 200, body |-> "ok_true"]]

\* The outcomes that matter to a branch of the loop body: the calls the
\* branch does not make are left at AllGood.
OutcomesFor(branch) ==
  IF branch = "expired"
  THEN [rm : BOOLEAN, vget : BOOLEAN, vrm : BOOLEAN, del : BOOLEAN,
        sel : {TRUE}, upd : {TRUE}, resp : {AllGood.resp}]
  ELSE IF branch = "window"
  THEN [rm : {TRUE}, vget : {TRUE}, vrm : {TRUE}, del : {TRUE},
        sel : BOOLEAN, upd : BOOLEAN, resp : Responses]
  ELSE {AllGood}

\* Fault variant: the row is deleted before the container is removed.
StopAndWipeOps_rowFirst(c, volExists, o) ==
  <<Event("rowdel", c, o.del), Event("remove", c, o.rm),
    Event("volget", c, volExists /\ o.vget)>>
  \o (IF volExists /\ o.vget THEN <<Event("volrm", c, o.vrm)>> ELSE <<>>)

\* Fault variant: no try/except around the runtime calls, so the first
\* failure ends the teardown.
StopAndWipeOps_raise(c, volExists, o) ==
  IF ~o.rm THEN <<Event("remove", c, FALSE)>>
  ELSE IF ~(volExists /\ o.vget)
  THEN <<Event("remove", c, TRUE), Event("volget", c, FALSE)>>
  ELSE <<Event("remove", c, TRUE), Event("volget", c, TRUE),
         Event("volrm", c, o.vrm), Event("rowdel", c, o.del)>>

\* Fault variant: a container that cannot be removed ends the teardown.
StopAndWipeOps_needsContainer(c, volExists, o) ==
  IF ~o.rm THEN <<Event("remove", c, FALSE)>>
  ELSE <<Event("remove", c, TRUE), Event("volget", c, volExists /\ o.vget)>>
       \o (IF volExists /\ o.vget THEN <<Event("volrm", c, o.vrm)>> ELSE <<>>)
       \o <<Event("rowdel", c, o.del)>>

\* The calls stop_and_wipe makes, in its order.  volumes.get raises NotFound
\* for a volume that does not exist; v.remove is reached only after a get
\* that returned.
StopAndWipeOps(c, volExists, o) ==
  LET got == volExists /\ o.vget
  IN  <<Event("remove", c, o.rm)>>
      \o <<Event("volget", c, got)>>
      \o (IF got THEN <<Event("volrm", c, o.vrm)>> ELSE <<>>)
      \o <<Event("rowdel", c, o.del)>>

HasOp(es, op, ok) == \E i \in DOMAIN es : es[i].op = op /\ es[i].ok = ok
Called(es, op) == \E i \in DOMAIN es : es[i].op = op

\* Fault variant: a failed container removal is not caught.
Escapes_removeUncaught(es) == HasOp(es, "remove", FALSE)

\* Whether an exception of one of the calls es leaves the loop body.  Each
\* call sits in a try/except Exception of its helper (container.remove,
\* volumes.get and v.remove in stop_and_wipe, the three statements in the DB
\* helpers, requests.post in trigger_backup), so none does.
Escapes(es) == FALSE

\* Fault variant: the teardown is skipped for a subdomain the registry does
\* not know.
stop_and_wipe_ifRow(c, cs, vs, rs, o) ==
  LET sub == get_subdomain(cont[c].labels, cont[c].name)
      volume == volume_name_for(sub)
      es == IF \E r \in rs : r.sub = sub
            THEN StopAndWipeOps(c, volume \in vs, o) ELSE <<>>
  IN  [cstate |-> IF HasOp(es, "remove", TRUE) THEN [cs EXCEPT ![c] = "gone"] ELSE cs,
       vols |-> IF HasOp(es, "volrm", TRUE) THEN vs \ {volume} ELSE vs,
       rows |-> IF Called(es, "rowdel") THEN delete_workspace_row(rs, sub, o.del) ELSE rs,
       ops |-> es]

\* stop_and_wipe(container): the world after it, and its calls.
stop_and_wipe(c, cs, vs, rs, o) ==
  LET name == cont[c].name
      labels == cont[c].labels
      sub == get_subdomain(labels, name)
      volume == volume_name_for(sub)
      \* container.remove raises NotFound for a container that is gone
      es == StopAndWipeOps(c, volume \in vs, [o EXCEPT !.rm = o.rm /\ cs[c] # "gone"])
  IN  [cstate |-> IF HasOp(es, "remove", TRUE) THEN [cs EXCEPT ![c] = "gone"] ELSE cs,
       vols |-> IF HasOp(es, "volrm", TRUE) THEN vs \ {volume} ELSE vs,
       rows |-> IF Called(es, "rowdel") THEN delete_workspace_row(rs, sub, o.del) ELSE rs,
       ops |-> es]

\* --------------------------------------------------------- the sweep
\* (exp - now_utc).total_seconds() / 60.0
delta_min(exp, nowu) == (exp.t - nowu) * MinPerTick

\* Fault variant: the expiry test is off by one tick.
IsExpired_early(d) == d <= MinPerTick

\* Fault variant: only the sweep that hits the expiry instant tears down.
IsExpired_atInstant(d) == d = 0

IsExpired(d) == d <= 0

\* Fault variant: the window's upper bound is excluded.
InBackupWindow_open(d) == d < BackupWindowMin
InBackupWindow(d) == d <= BackupWindowMin

\* Fault variant: the window test comes before the expiry test.
Decide_windowFirst(labels, name, nowu) ==
  IF ~is_workspace(labels, name) THEN "not_workspace"
  ELSE IF get_subdomain(labels, name) = <<>> THEN "no_sub"
  ELSE IF ~get_expiry(labels).some THEN "no_expiry"
  ELSE IF InBackupWindow(delta_min(get_expiry(labels), nowu)) THEN "window"
  ELSE IF IsExpired(delta_min(get_expiry(labels), nowu)) THEN "expired"
  ELSE "far"

\* Which branch of the loop body a container takes.
Decide(labels, name, nowu) ==
  IF ~is_workspace(labels, name) THEN "not_workspace"
  ELSE IF get_subdomain(labels, name) = <<>> THEN "no_sub"
  ELSE IF ~get_expiry(labels).some THEN "no_expiry"
  ELSE IF IsExpired(delta_min(get_expiry(labels), nowu)) THEN "expired"
  ELSE IF InBackupWindow(delta_min(get_expiry(labels), nowu)) THEN "window"
  ELSE "far"

\* Fault variant: the marker is not looked at.
NeedsBackup_always(info) == TRUE

\* Fault variant: the guard tests the email instead of the marker.
NeedsBackup_byEmail(info) == info.email # NullEmail

\* Fault variant: the process remembers a failed webhook call and does not
\* call again for any workspace.
NeedsBackup_memo(info) ==
  ~info.backup_sent_at.set /\ \A c \in Ids : lastHook[c] # "fail"

\* if backup_sent_at is None
\* Fault variant: a row without owner email is skipped.
NeedsBackup_guardEmail(info) == ~info.backup_sent_at.set /\ info.email # NullEmail

NeedsBackup(info) == ~info.backup_sent_at.set

\* Fault variant: the marker is written whatever trigger_backup returned.
ShouldMark_always(tb) == TRUE

\* if ok: mark_backup_sent(sub)
ShouldMark(tb) == tb.ok

\* Fault variant: a failed webhook call is repeated at once.
BackupPath_retry(c, sub, rs, o, hasUrl, t) ==
  LET info == get_workspace_info(rs, sub, o.sel)
      tb == trigger_backup(hasUrl, o.resp)
      look == <<Event("lookup", c, info.found)>>
      post == IF tb.posted
              THEN <<PostEvent(c, tb.ok, payload(sub, info.email,
                                                 get_expiry(cont[c].labels)))>>
              ELSE <<Event("no_url", c, FALSE)>>
  IN  IF ~info.found \/ ~NeedsBackup(info)
      THEN [rows |-> rs, ops |-> look, hook |-> "none"]
      ELSE [rows |-> IF ShouldMark(tb) THEN mark_backup_sent(rs, sub, o.upd, t) ELSE rs,
            ops |-> look \o post \o (IF tb.ok THEN <<>> ELSE post)
                    \o (IF ShouldMark(tb) THEN <<Event("mark", c, o.upd)>> ELSE <<>>),
            hook |-> IF ~tb.posted THEN "none" ELSE IF tb.ok THEN "ok" ELSE "fail"]

\* The pre-expiry branch: lookup, then webhook, then mark.
BackupPath(c, sub, rs, o, hasUrl, t) ==
  LET info == get_workspace_info(rs, sub, o.sel)
      tb == trigger_backup(hasUrl, o.resp)
      look == <<Event("lookup", c, info.found)>>
  IN  IF ~info.found \/ ~NeedsBackup(info)
      THEN [rows |-> rs, ops |-> look, hook |-> "none"]
      ELSE [rows |-> IF ShouldMark(tb) THEN mark_backup_sent(rs, sub, o.upd, t) ELSE rs,
            ops |-> look
                    \o (IF tb.posted
                        THEN <<PostEvent(c, tb.ok,
                                         payload(sub, info.email,
                                                 get_expiry(cont[c].labels)))>>
                        ELSE <<Event("no_url", c, FALSE)>>)
                    \o (IF ShouldMark(tb) THEN <<Event("mark", c, o.upd)>> ELSE <<>>),
            hook |-> IF ~tb.posted THEN "none" ELSE IF tb.ok THEN "ok" ELSE "fail"]

\* Fault variant: expired counts the removals that succeeded.
count_expired_onSuccess(d, es, n) == IF HasOp(es, "remove", TRUE) THEN n + 1 ELSE n

\* expired += 1 stands before stop_and_wipe(c) and counts the call, whatever
\* the calls es of the teardown come to.
count_expired(d, es, n) == IF d = "expired" THEN n + 1 ELSE n

\* One iteration of the for loop of sweep_once, for container c.
LoopBody(c, o) ==
  LET labels == cont[c].labels
      name == cont[c].name
      d == Decide(labels, name, now_utc)
      sub == get_subdomain(labels, name)
      sw == stop_and_wipe(c, cstate, vols, rows, o)
      bp == BackupPath(c, sub, rows, o, url, now_utc)
  IN  [cstate |-> IF d = "expired" THEN sw.cstate ELSE cstate,
       vols |-> IF d = "expired" THEN sw.vols ELSE vols,
       rows |-> IF d = "expired" THEN sw.rows
                ELSE IF d = "window" THEN bp.rows ELSE rows,
       ops |-> IF d = "expired" THEN sw.ops
               ELSE IF d = "window" THEN bp.ops ELSE <<>>,
       hook |-> IF d = "window" THEN bp.hook ELSE "none",
       total |-> total + 1,
       with_sub |-> IF d \in {"not_workspace", "no_sub"} THEN with_sub ELSE with_sub + 1,
       expired |-> count_expired(d, IF d = "expired" THEN sw.ops ELSE <<>>, expired)]

\* ------------------------------------------------------- initial state
SubOf(i) == <<"u-", Tok(i)>>
NameOf(i) == <<"n8n_">> \o SubOf(i)
VolOf(i) == volume_name_for(SubOf(i))

\* Expiries the provisioning can have written, in ticks: one container is
\* inside the window at tick 0, the other still outside it.
Expiries == {BackupWindowMin \div MinPerTick, BackupWindowMin \div MinPerTick + 1}

\* start_n8n_local's labels (current key generation); the label carries
\* expires_dt.isoformat(), the row was inserted by provision_core.
NewGen(i, e) ==
  [name |-> NameOf(i), registered |-> TRUE,
   labels |-> [NoLabels EXCEPT !.ws_new = Str("true"),
                               !.sub_new = Str(SubOf(i)),
                               !.exp_new = Str(Iso(e, 0))]]

\* A container of the legacy label generation (janitor/app.py reads
\* com.xcommand.sub and com.xcommand.expires_at), unknown to the registry.
Legacy(i, e) ==
  [name |-> NameOf(i), registered |-> FALSE,
   labels |-> [NoLabels EXCEPT !.sub_old = Str(SubOf(i)),
                               !.exp_old = Str(Iso(e, 1))]]

\* A workspace container recognised by its name alone, without labels.
Bare(i) == [name |-> NameOf(i), registered |-> TRUE, labels |-> NoLabels]

\* A workspace container whose expiry labels give no date: an empty string
\* under the new key and text that is no ISO date under the old one.
Unparsable(i) ==
  [name |-> NameOf(i), registered |-> TRUE,
   labels |-> [NoLabels EXCEPT !.ws_new = Str("true"),
                               !.sub_new = Str(SubOf(i)),
                               !.exp_new = Str(EmptyTs),
                               !.exp_old = Str(Junk(1))]]

\* A container of somebody else: no "true" ownership label and another
\* name, but a subdomain label and an expiry label long past.
Foreign(i) ==
  [name |-> <<"traefik", Tok(i)>>, registered |-> FALSE,
   labels |-> [NoLabels EXCEPT !.ws_new = Str("false"),
                               !.sub_new = Str(SubOf(i)),
                               !.exp_old = Str(Iso(0, 0))]]

\* What container i can be.  The first two range over every kind; further
\* ones are bystanders of the kinds a sweep leaves alone.
Profiles(i) ==
  IF i <= 2
  THEN {NewGen(i, e) : e \in Expiries}
       \cup {Legacy(i, BackupWindowMin \div MinPerTick), Bare(i), Foreign(i),
             Unparsable(i)}
  ELSE {Bare(i), Foreign(i)}

\* The row provision_core inserts beside the container; the janitor reads
\* the column user_email, which the second workspace's row holds as NULL.
RowOf(i) ==
  [sub |-> SubOf(i), email |-> IF i = 2 THEN NullEmail ELSE <<"mail", Tok(i)>>,
   backup_sent_at |-> NullTs, status |-> "active",
   expires_at |-> get_expiry(cont[i].labels)]

\* No helper is called on its own while the janitor runs.
NoArg ==
  [fn |-> "none", hasUrl |-> FALSE, resp |-> AllGood.resp,
   labels |-> NoLabels, name |-> <<>>]
NoRet == [done |-> FALSE, posted |-> FALSE, ok |-> FALSE, val |-> <<>>]

Init ==
  /\ cont \in {f \in [Ids -> UNION {Profiles(i) : i \in Ids}] :
                  \A i \in Ids : f[i] \in Profiles(i)}
  /\ cstate = [i \in Ids |-> "running"]
  /\ vols = {VolOf(i) : i \in {j \in Ids : is_workspace(cont[j].labels, cont[j].name)}}
  /\ rows = {RowOf(i) : i \in {j \in Ids : cont[j].registered}}
  /\ url \in BOOLEAN
  /\ pc = "start"
  /\ now_utc = 0
  /\ queue = <<>>
  /\ total = 0 /\ with_sub = 0 /\ expired = 0
  /\ ops = <<>>
  /\ lastHook = [i \in Ids |-> "none"]
  /\ printed = <<>>
  /\ arg = NoArg
  /\ ret = NoRet

\* ------------------------------------------------------------ actions
\* Fault variant: client.containers.list() without all=True, which leaves
\* out the containers that are not running.
RECURSIVE Listing_runningOnly(_)
Listing_runningOnly(i) ==
  IF i > NumContainers THEN <<>>
  ELSE (IF cstate[i] = "running" THEN <<i>> ELSE <<>>) \o Listing_runningOnly(i + 1)

\* client.containers.list(all=True): every container that exists.
RECURSIVE Listing(_)
Listing(i) ==
  IF i > NumContainers THEN <<>>
  ELSE (IF cstate[i] # "gone" THEN <<i>> ELSE <<>>) \o Listing(i + 1)

\* while True: sweep_once(datetime.now(timezone.utc)) is entered with the
\* clock's reading, which never runs backwards, and the enumeration returns.
SweepStart ==
  /\ pc = "start"
  /\ pc' = "loop"
  /\ \E t \in Times : t >= now_utc /\ now_utc' = t
  /\ queue' = Listing(1)
  /\ UNCHANGED <<arg, ret, cont, cstate, vols, rows, url, total, with_sub, expired,
                 ops, lastHook, printed>>

\* Fault variant: the main loop has no except clause and the process ends.
AfterRaise_exit == "exit"

\* Where the main loop goes when sweep_once raises: except Exception prints
\* "sweep error" and control falls through to time.sleep.
AfterRaise == "sleep"

\* The enumeration raises: sweep_once propagates it, the main loop logs
\* "sweep error" and goes to sleep.
SweepRaises ==
  /\ pc = "start"
  /\ pc' = AfterRaise
  /\ \E t \in Times : t >= now_utc /\ now_utc' = t
  /\ UNCHANGED <<arg, ret, cont, cstate, vols, rows, url, queue, total, with_sub, expired,
                 ops, lastHook, printed>>

\* One iteration of the for loop.
ProcessContainer ==
  /\ pc = "loop"
  /\ queue # <<>>
  /\ \E o \in OutcomesFor(Decide(cont[Head(queue)].labels, cont[Head(queue)].name, now_utc)) :
     \E c \in {Head(queue)} :
     \E r \in {LoopBody(c, o)} :
           /\ cstate' = r.cstate
           /\ vols' = r.vols
           /\ rows' = r.rows
           /\ ops' = r.ops
           /\ total' = r.total
           /\ with_sub' = r.with_sub
           /\ expired' = r.expired
           /\ lastHook' = IF Called(r.ops, "remove") THEN [lastHook EXCEPT ![c] = "none"]
                           ELSE IF r.hook = "none" THEN lastHook
                           ELSE [lastHook EXCEPT ![c] = r.hook]
           \* an exception that left the loop body would end sweep_once
           \* without the summary line, in the main loop's except
           /\ pc' = IF Escapes(r.ops) THEN AfterRaise ELSE pc
  /\ queue' = Tail(queue)
  /\ UNCHANGED <<arg, ret, cont, url, now_utc, printed>>

\* The loop is over: the summary line is printed and sweep_once returns;
\* its locals are gone.
SweepEnd ==
  /\ pc = "loop"
  /\ queue = <<>>
  /\ pc' = "sleep"
  /\ printed' = <<[total |-> total, with_sub |-> with_sub, expired |-> expired]>>
  /\ total' = 0 /\ with_sub' = 0 /\ expired' = 0
  /\ ops' = <<>>
  /\ UNCHANGED <<arg, ret, cont, cstate, vols, rows, url, now_utc, queue, lastHook>>

\* time.sleep(interval), then the next turn of while True.
Sleep ==
  /\ pc = "sleep"
  /\ pc' = "start"
  /\ printed' = <<>>
  /\ UNCHANGED <<arg, ret, cont, cstate, vols, rows, url, now_utc, queue,
                 total, with_sub, expired, ops, lastHook>>

Next == SweepStart \/ SweepRaises \/ ProcessContainer \/ SweepEnd \/ Sleep

Spec == Init /\ [][Next]_vars

\* The janitor is one process that is never suspended for ever: whenever it
\* has a next step it takes one.
FairSpec == Spec /\ WF_vars(Next)

\* The iteration at hand is the teardown of container c.
RemoveEnabled(c) ==
  /\ pc = "loop" /\ queue # <<>> /\ Head(queue) = c
  /\ Decide(cont[c].labels, cont[c].name, now_utc) = "expired"

\* That iteration's container.remove(force=True) succeeds.
RemoveSucceeds(c) == RemoveEnabled(c) /\ cstate'[c] = "gone"

\* A sweep lists the containers at the latest time.
ListsAtLatest == pc = "start" /\ pc' = "loop" /\ now_utc' = MaxTime

\* The environment of the reclamation guarantee: the clock goes on and the
\* enumeration does not fail for ever, and container.remove(force=True) does
\* not fail for ever on a container the janitor keeps trying to remove.
\* These are the strong fairness conditions of SweepStart taken at the
\* latest time and of ProcessContainer removing c, each written out as
\* "finally never enabled, or taken again and again" with its enabling
\* condition as a state predicate.
LiveSpec ==
  /\ FairSpec
  /\ <>[](pc # "start") \/ []<><<ListsAtLatest>>_vars
  /\ \A c \in Ids : <>[](~RemoveEnabled(c)) \/ []<><<RemoveSucceeds(c)>>_vars

\* ------------------------------------------- the API beside the janitor
\* container_name as provision_core stores it in the row: f"n8n_{sub}".
container_name_of(sub) == <<"n8n_">> \o sub

\* stop_container: containers.get by name (NotFound answers False), then
\* container.stop(timeout=30), whose APIError is swallowed; a stopped
\* container stays in the runtime's inventory.
stop_container(cs, cname, ok) ==
  [i \in Ids |-> IF cont[i].name = cname /\ cs[i] # "gone" /\ ok
                 THEN "stopped" ELSE cs[i]]

\* POST /workspaces/{sub}/stop: 404 without a row; otherwise the container
\* is stopped and the row's status set to 'stopping'. stopOk and updOk are
\* what the runtime and the database make of their calls.
ApiStop ==
  \E i \in Ids, stopOk \in BOOLEAN, updOk \in BOOLEAN :
    /\ \E r \in rows : r.sub = SubOf(i)
    /\ cstate' = stop_container(cstate, container_name_of(SubOf(i)), stopOk)
    /\ rows' = IF updOk
               THEN {IF r.sub = SubOf(i) THEN [r EXCEPT !.status = "stopping"] ELSE r :
                       r \in rows}
               ELSE rows
    /\ UNCHANGED <<cont, vols, url, pc, now_utc, queue, total, with_sub, expired,
                   ops, lastHook, printed, arg, ret>>

\* The janitor and the API's stop requests, interleaved in any order: the
\* two are separate processes sharing the runtime and the database.
ApiNext == Next \/ ApiStop

ApiSpec == Init /\ [][ApiNext]_vars

\* ------------------------------------------------ the legacy janitor
\* janitor/app.py, the sweep that janitor.py replaces: it reads the keys
\* com.xcommand.sub and com.xcommand.expires_at only, knows no ownership
\* test, no backup window and no registry.  parse_iso, sub_from_container,
\* volume_name_for and the main loop are the same text in both files.

\* stop_and_wipe of app.py: container.remove(force=True), then volumes.get
\* and v.remove in one try block.
app_stop_and_wipe(c, cs, vs, o) ==
  LET name == cont[c].name
      lbls == cont[c].labels
      sub == IF TruthySeq(lbls.sub_old) THEN lbls.sub_old.s
             ELSE sub_from_container(name)
      vol == volume_name_for(sub)
      got == vol \in vs /\ o.vget
      es == <<Event("remove", c, o.rm /\ cs[c] # "gone")>>
            \o <<Event("volget", c, got)>>
            \o (IF got THEN <<Event("volrm", c, o.vrm)>> ELSE <<>>)
  IN  [cstate |-> IF HasOp(es, "remove", TRUE) THEN [cs EXCEPT ![c] = "gone"] ELSE cs,
       vols |-> IF HasOp(es, "volrm", TRUE) THEN vs \ {vol} ELSE vs,
       ops |-> es]

\* One iteration of the for loop of app.py's sweep_once.
app_LoopBody(c, o) ==
  LET lbls == cont[c].labels
      hasSub == TruthySeq(lbls.sub_old)
      exp == parse_iso(IF lbls.exp_old.has THEN lbls.exp_old.s ELSE EmptyTs)
      due == hasSub /\ exp.some /\ exp.t <= now_utc
      sw == app_stop_and_wipe(c, cstate, vols, o)
  IN  [cstate |-> IF due THEN sw.cstate ELSE cstate,
       vols |-> IF due THEN sw.vols ELSE vols,
       ops |-> IF due THEN sw.ops ELSE <<>>,
       total |-> total + 1,
       with_sub |-> IF hasSub THEN with_sub + 1 ELSE with_sub,
       expired |-> IF due THEN expired + 1 ELSE expired]

app_ProcessContainer ==
  /\ pc = "loop"
  /\ queue # <<>>
  /\ \E o \in OutcomesFor("expired") :
     \E r \in {app_LoopBody(Head(queue), o)} :
           /\ cstate' = r.cstate
           /\ vols' = r.vols
           /\ ops' = r.ops
           /\ total' = r.total
           /\ with_sub' = r.with_sub
           /\ expired' = r.expired
  /\ queue' = Tail(queue)
  /\ UNCHANGED <<arg, ret, cont, rows, url, pc, now_utc, lastHook, printed>>

\* The containers the legacy sweep can meet.  OldGen: the legacy keys on a
\* container of the workspace naming pattern, with or without the legacy
\* ownership label.  OldGenNamed: the same labels under another name.
\* Relabelled: a container that carries both generations, its current keys
\* holding a later expiry.  The first two containers range over every kind;
\* further ones are bystanders without labels.
ExpiryOld == 1
OldGen(i, w) ==
  [name |-> NameOf(i), registered |-> FALSE,
   labels |-> [NoLabels EXCEPT !.ws_old = w,
                               !.sub_old = Str(SubOf(i)),
                               !.exp_old = Str(Iso(ExpiryOld, 1))]]
OldGenNamed(i, w) == [OldGen(i, w) EXCEPT !.name = <<"ws_">> \o SubOf(i)]
Relabelled(i) ==
  [OldGen(i, Absent) EXCEPT !.labels.ws_new = Str("true"),
                            !.labels.sub_new = Str(SubOf(i)),
                            !.labels.exp_new = Str(Iso(ExpiryOld + 1, 0))]
app_Profiles(i) ==
  IF i <= 2
  THEN {OldGen(i, w) : w \in {Absent, Str("true")}}
       \cup {OldGenNamed(i, w) : w \in {Absent, Str("true"), Str("false")}}
       \cup {Relabelled(i), Bare(i)}
  ELSE {Bare(i)}

app_Init ==
  /\ cont \in {f \in [Ids -> UNION {app_Profiles(i) : i \in Ids}] :
                  \A i \in Ids : f[i] \in app_Profiles(i)}
  /\ cstate = [i \in Ids |-> "running"]
  /\ vols = {VolOf(i) : i \in Ids}
  /\ rows = {}
  /\ url = FALSE
  /\ pc = "start"
  /\ now_utc = 0
  /\ queue = <<>>
  /\ total = 0 /\ with_sub = 0 /\ expired = 0
  /\ ops = <<>>
  /\ lastHook = [i \in Ids |-> "none"]
  /\ printed = <<>>
  /\ arg = NoArg
  /\ ret = NoRet

app_Next == SweepStart \/ SweepRaises \/ app_ProcessContainer \/ SweepEnd \/ Sleep

app_Spec == app_Init /\ [][app_Next]_vars

\* ------------------------------------------- the helpers on their own
\* trigger_backup and is_workspace are functions of their arguments (and of
\* the URL setting); here each is called once on arguments drawn from every
\* combination of the values that matter to it.
OwnerValues == {Absent, Str(""), Str("true"), Str("false"), Str("yes")}
Names == {<<"n8n_", "u-", "a">>, <<"n8n_", "x">>, <<"traefik">>}

TriggerArgs ==
  {[NoArg EXCEPT !.fn = "trigger_backup", !.hasUrl = u, !.resp = r] :
     u \in BOOLEAN, r \in Responses}
ClassifyArgs ==
  {[NoArg EXCEPT !.fn = "is_workspace", !.name = n,
                 !.labels = [NoLabels EXCEPT !.ws_new = a, !.ws_old = b]] :
     a \in OwnerValues, b \in OwnerValues, n \in Names}

\* get_subdomain, and stop_and_wipe after it, on a container whose two
\* subdomain labels and name take every combination; the runtime holds a
\* volume and the registry a row for every subdomain that can come out.
SubValues == {AbsentSub, Str(<<>>), Str(<<"u-", "a">>), Str(<<"u-", "b">>)}
SubNames == {<<"n8n_", "u-", "c">>, <<"traefik">>}
AllSubs == {<<"u-", "a">>, <<"u-", "b">>, <<"u-", "c">>, <<"traefik">>}
SubdomainArgs ==
  {[NoArg EXCEPT !.fn = "get_subdomain", !.name = n,
                 !.labels = [NoLabels EXCEPT !.sub_new = a, !.sub_old = b]] :
     a \in SubValues, b \in SubValues, n \in SubNames}
RowFor(sub) ==
  [sub |-> sub, email |-> <<"mail">> \o sub,
   backup_sent_at |-> NullTs, status |-> "active", expires_at |-> SomeDT(0)]

\* parse_iso on every kind of string: a timestamp without offset or with
\* one, text that is no timestamp, or nothing, followed by no, one or two
\* letters Z.
StampKinds == {"iso", "iso_off", "junk", "empty"}
ParseArgs ==
  {[NoArg EXCEPT !.fn = "parse_iso",
                 !.labels = [NoLabels EXCEPT
                               !.exp_new = Str([kind |-> k, t |-> t, zs |-> z])]] :
     k \in StampKinds, t \in Times, z \in {0, 1, 2}}

\* stop_and_wipe on a workspace of which any part can be gone already: the
\* container (an earlier teardown removed it), the volume (an earlier
\* teardown, or the API's wipe, which also sets the row's status), the row.
\* Another workspace's volume and row are there throughout.
TeardownArgs ==
  {[NoArg EXCEPT !.fn = "stop_and_wipe", !.name = NameOf(1),
                 !.labels = [NoLabels EXCEPT !.ws_new = Str("true"),
                                             !.sub_new = Str(SubOf(1))]]}
OtherSub == <<"u-", "z">>
TeardownRows ==
  {{}, {RowFor(SubOf(1))}, {[RowFor(SubOf(1)) EXCEPT !.status = "deleted"]}}

HelperInit ==
  /\ arg \in TriggerArgs \cup ClassifyArgs \cup SubdomainArgs \cup TeardownArgs
             \cup ParseArgs
  /\ ret = NoRet
  /\ cont = [i \in Ids |->
               IF i = 1 /\ arg.fn \in {"get_subdomain", "stop_and_wipe"}
               THEN [name |-> arg.name, registered |-> TRUE, labels |-> arg.labels]
               ELSE Bare(i)]
  /\ cstate \in {[i \in Ids |-> IF i = 1 THEN x ELSE "running"] :
                   x \in IF arg.fn = "stop_and_wipe"
                         THEN {"running", "gone"} ELSE {"running"}}
  /\ vols \in IF arg.fn = "get_subdomain"
               THEN {{volume_name_for(x) : x \in AllSubs}}
               ELSE IF arg.fn = "stop_and_wipe"
               THEN {v \cup {volume_name_for(OtherSub)} : v \in SUBSET {VolOf(1)}}
               ELSE {{}}
  /\ rows \in IF arg.fn = "get_subdomain" THEN {{RowFor(x) : x \in AllSubs}}
               ELSE IF arg.fn = "stop_and_wipe"
               THEN {r \cup {RowFor(OtherSub)} : r \in TeardownRows}
               ELSE {{}}
  /\ url = arg.hasUrl
  /\ pc = "start" /\ now_utc = 0 /\ queue = <<>>
  /\ total = 0 /\ with_sub = 0 /\ expired = 0
  /\ ops = <<>>
  /\ lastHook = [i \in Ids |-> "none"]
  /\ printed = <<>>

Call_trigger_backup ==
  /\ arg.fn = "trigger_backup" /\ ~ret.done
  /\ ret' = [done |-> TRUE,
             posted |-> trigger_backup(arg.hasUrl, arg.resp).posted,
             ok |-> trigger_backup(arg.hasUrl, arg.resp).ok,
             val |-> <<>>]
  /\ UNCHANGED <<arg, cont, cstate, vols, rows, url, pc, now_utc, queue,
                 total, with_sub, expired, ops, lastHook, printed>>

Call_is_workspace ==
  /\ arg.fn = "is_workspace" /\ ~ret.done
  /\ ret' = [done |-> TRUE, posted |-> FALSE,
             ok |-> is_workspace(arg.labels, arg.name),
             val |-> <<>>]
  /\ UNCHANGED <<arg, cont, cstate, vols, rows, url, pc, now_utc, queue,
                 total, with_sub, expired, ops, lastHook, printed>>

\* sub = get_subdomain(labels, name) as sweep_once computes it, then
\* stop_and_wipe(c) on the same container, every call of it succeeding.
Call_get_subdomain ==
  /\ arg.fn = "get_subdomain" /\ ~ret.done
  /\ ret' = [done |-> TRUE, posted |-> FALSE, ok |-> FALSE,
             val |-> get_subdomain(arg.labels, arg.name)]
  /\ \E r \in {stop_and_wipe(1, cstate, vols, rows, AllGood)} :
       /\ cstate' = r.cstate
       /\ vols' = r.vols
       /\ rows' = r.rows
       /\ ops' = r.ops
  /\ UNCHANGED <<arg, cont, url, pc, now_utc, queue,
                 total, with_sub, expired, lastHook, printed>>

\* stop_and_wipe(container), up to MaxCalls times on the same workspace,
\* each time with any answers of the runtime and the registry.
Call_stop_and_wipe ==
  /\ arg.fn = "stop_and_wipe" /\ Len(ret.val) < MaxCalls
  /\ \E o \in OutcomesFor("expired") :
     \E r \in {stop_and_wipe(1, cstate, vols, rows, o)} :
       /\ cstate' = r.cstate
       /\ vols' = r.vols
       /\ rows' = r.rows
       /\ ops' = r.ops
       /\ ret' = [done |-> TRUE, posted |-> FALSE, ok |-> ~Escapes(r.ops),
                  val |-> Append(ret.val, o = AllGood)]
  /\ UNCHANGED <<arg, cont, url, pc, now_utc, queue,
                 total, with_sub, expired, lastHook, printed>>

Call_parse_iso ==
  /\ arg.fn = "parse_iso" /\ ~ret.done
  /\ ret' = [done |-> TRUE, posted |-> FALSE, ok |-> TRUE,
             val |-> parse_iso(arg.labels.exp_new.s)]
  /\ UNCHANGED <<arg, cont, cstate, vols, rows, url, pc, now_utc, queue,
                 total, with_sub, expired, ops, lastHook, printed>>

HelperNext ==
  \/ Call_trigger_backup \/ Call_is_workspace \/ Call_get_subdomain
  \/ Call_stop_and_wipe \/ Call_parse_iso

HelperSpec == HelperInit /\ [][HelperNext]_vars

\* ============================================================ claims
ExpOf(c) == get_expiry(cont[c].labels)
SubC(c) == get_subdomain(cont[c].labels, cont[c].name)
IsWs(c) == is_workspace(cont[c].labels, cont[c].name)
PastExpiry(c) == ExpOf(c).some /\ ExpOf(c).t <= now_utc
InWin(c) ==
  /\ ExpOf(c).some
  /\ ExpOf(c).t > now_utc
  /\ (ExpOf(c).t - now_utc) * MinPerTick <= BackupWindowMin
HasRow(c) == \E r \in rows : r.sub = SubC(c)
RowC(c) == CHOOSE r \in rows : r.sub = SubC(c)
RowSubs(rs) == {r.sub : r \in rs}
TeardownOps == {"remove", "volget", "volrm", "rowdel"}
BackupOps == {"lookup", "post", "no_url", "mark"}
Idx(es, op) == {i \in DOMAIN es : es[i].op = op}
Visiting == pc = "loop" /\ queue # <<>>
IsCall(e, op, c, ok) == e.op = op /\ e.c = c /\ e.ok = ok

\* C1: a teardown call (container removal, volume get/removal, row DELETE)
\* is made for a container only in a sweep whose now_utc is at or after the
\* expiry parsed from its labels; a container, a workspace volume or a
\* registered row is missing only for a container whose expiry has passed.
C1_TeardownOnlyAtOrAfterExpiry ==
  /\ \A i \in DOMAIN ops : ops[i].op \in TeardownOps => PastExpiry(ops[i].c)
  /\ \A c \in Ids :
       \/ PastExpiry(c)
       \/ /\ cstate[c] # "gone"
          /\ IsWs(c) => volume_name_for(SubC(c)) \in vols
          /\ cont[c].registered => HasRow(c)

\* C1 witness: a teardown in the sweep whose now_utc equals the expiry.
C1_Witness ==
  \E c \in Ids :
    /\ ExpOf(c).some /\ ExpOf(c).t = now_utc
    /\ HasOp(ops, "remove", TRUE) /\ ops[1].c = c
    /\ cstate[c] = "gone"

\* C2: when the container visited is workspace-owned and its label expiry
\* is at or before now_utc, the iteration starts with the container removal
\* and makes no registry lookup, no webhook call and no backup_sent_at write,
\* whatever the row says; no iteration ever makes a backup call for a
\* container past its expiry.
C2_ExpiryBeforeBackup ==
  [][ Visiting =>
      LET c == Head(queue)
      IN  /\ (IsWs(c) /\ SubC(c) # <<>> /\ PastExpiry(c)) =>
                /\ ops' # <<>>
                /\ ops'[1].op = "remove" /\ ops'[1].c = c
          /\ \A i \in DOMAIN ops' :
                PastExpiry(ops'[i].c) => ops'[i].op \notin BackupOps ]_vars

\* C2 witness: a teardown has run for a container whose row is still there
\* with backup_sent_at null and for which no webhook call was ever made.
C2_Witness ==
  \E c \in Ids :
    /\ ops # <<>> /\ ops[1] = Event("remove", c, TRUE)
    /\ PastExpiry(c)
    /\ HasRow(c) /\ ~RowC(c).backup_sent_at.set
    /\ lastHook[c] = "none"

\* C3 as stated: at the end of a sweep no container is removed while its
\* registry row still exists.
C3_Original ==
  pc = "sleep" => \A c \in Ids : cstate[c] = "gone" => ~HasRow(c)

\* C3 amended: a teardown that removed the container went on to issue the
\* row DELETE for its subdomain in the same pass, and the row is gone
\* whenever that DELETE succeeded (a DELETE that failed leaves the row).
C3_RemovedThenDeleteIssued ==
  \A c \in Ids :
    (\E i \in DOMAIN ops : ops[i] = Event("remove", c, TRUE)) =>
      /\ \E j \in DOMAIN ops : ops[j].op = "rowdel" /\ ops[j].c = c
      /\ (\E j \in DOMAIN ops : ops[j] = Event("rowdel", c, TRUE)) => ~HasRow(c)
      /\ cstate[c] = "gone"

\* C3 witness: a registered container was removed and its DELETE succeeded.
C3_Witness ==
  \E c \in Ids :
    /\ cont[c].registered
    /\ HasOp(ops, "remove", TRUE) /\ HasOp(ops, "rowdel", TRUE) /\ ops[1].c = c
    /\ cstate[c] = "gone" /\ ~HasRow(c)

\* C4 as stated: at the end of a sweep, a registered workspace whose row is
\* gone has no container left in the inventory.
C4_Original ==
  pc = "sleep" => \A c \in Ids : (cont[c].registered /\ ~HasRow(c)) => cstate[c] = "gone"

\* C4 amended: a row disappears only in a pass that attempted the removal of
\* the container of that subdomain before the DELETE; the container is out
\* of the inventory when that removal succeeded and is left in place, with
\* its row gone, when it failed.
C4_RowGoneOnlyAfterRemovalAttempt ==
  [][ \A s \in RowSubs(rows) \ RowSubs(rows') :
        \E c \in Ids :
          /\ SubC(c) = s
          /\ \E i, j \in DOMAIN ops' :
                /\ i < j
                /\ ops'[i].op = "remove" /\ ops'[i].c = c
                /\ ops'[j] = Event("rowdel", c, TRUE)
                /\ ops'[i].ok => cstate'[c] = "gone"
                /\ (~ops'[i].ok) => cstate'[c] = cstate[c] ]_vars

\* C4 witness: the removal failed, the DELETE succeeded: the row is gone
\* and the container still exists.
C4_Witness ==
  \E c \in Ids :
    /\ cont[c].registered
    /\ ops # <<>> /\ ops[1] = Event("remove", c, FALSE)
    /\ HasOp(ops, "rowdel", TRUE)
    /\ ~HasRow(c) /\ cstate[c] = "running"

\* C5: within one teardown the container removal comes first, then the
\* volume calls, then the row DELETE, which is the last call; a row DELETE
\* is never issued without the removal of the same container before it.
C5_TeardownOrder ==
  /\ \A j \in Idx(ops, "rowdel") :
       /\ j = Len(ops)
       /\ ops[1].op = "remove" /\ ops[1].c = ops[j].c
  /\ \A j \in Idx(ops, "volget") \cup Idx(ops, "volrm") :
       /\ \A i \in Idx(ops, "remove") : i < j
       /\ \A k \in Idx(ops, "rowdel") : j < k
  /\ \A j \in Idx(ops, "volrm") : \A i \in Idx(ops, "volget") : i < j

\* C5 witness: a teardown that made all four calls.
C5_Witness ==
  /\ Len(ops) = 4
  /\ ops[1].op = "remove" /\ ops[2].op = "volget"
  /\ ops[3].op = "volrm" /\ ops[4].op = "rowdel"

\* C6: whatever the outcome of the container removal, of the volume lookup
\* and removal and of the row DELETE, a teardown makes all three steps and
\* the loop goes on: the volume removal itself is skipped only when the
\* lookup did not return the volume.
C6_IndependentFaultDomains ==
  Called(ops, "remove") =>
    /\ Cardinality(Idx(ops, "remove")) = 1
    /\ Cardinality(Idx(ops, "volget")) = 1
    /\ Cardinality(Idx(ops, "rowdel")) = 1
    /\ Called(ops, "volrm") <=> HasOp(ops, "volget", TRUE)
    /\ pc = "loop"

\* C6 witness: every step of one teardown failed and the sweep went on.
C6_Witness ==
  /\ Len(ops) = 3
  /\ ops = <<Event("remove", ops[1].c, FALSE), Event("volget", ops[1].c, FALSE),
             Event("rowdel", ops[1].c, FALSE)>>
  /\ volume_name_for(SubC(ops[1].c)) \in vols
  /\ pc = "loop"

\* C7 as stated: once a webhook call for a workspace was acknowledged, no
\* later visit of that workspace makes a webhook call.
C7_Original ==
  [][ (Visiting /\ lastHook[Head(queue)] = "ok") => ~Called(ops', "post") ]_vars

\* C7 amended: once an acknowledged webhook call was followed by a
\* backup_sent_at write that succeeded, every later visit of the workspace
\* inside the window is a no-op: the lookup at most, no webhook call, no
\* write, the registry unchanged.  (When the write failed the marker is
\* still null and the next sweep calls the webhook again.)
C7_NoCallOnceMarked ==
  [][ (Visiting /\ InWin(Head(queue)) /\ HasRow(Head(queue))
         /\ RowC(Head(queue)).backup_sent_at.set) =>
        /\ ~Called(ops', "post")
        /\ ~Called(ops', "mark")
        /\ \A i \in DOMAIN ops' : ops'[i].op = "lookup"
        /\ rows' = rows ]_vars

\* C7 witness: the visit after an acknowledged and recorded notification:
\* the row was read, its marker is set, nothing else was called.
C7_Witness ==
  \E c \in Ids :
    /\ ops = <<Event("lookup", c, TRUE)>>
    /\ InWin(c)
    /\ lastHook[c] = "ok"
    /\ RowC(c).backup_sent_at.set

\* C8: the UPDATE of backup_sent_at is issued only right after a webhook
\* call for the same container that returned success, in the same
\* iteration; a marker goes from null to set only in such an iteration, and
\* never when the webhook call failed or was not made.
C8_MarkOnlyAfterAck ==
  [][ /\ \A j \in Idx(ops', "mark") :
           /\ j > 1
           /\ IsCall(ops'[j - 1], "post", ops'[j].c, TRUE)
      /\ \A r \in rows : \A r2 \in rows' :
           (r2.sub = r.sub /\ r2.backup_sent_at # r.backup_sent_at) =>
             \E j \in DOMAIN ops' :
               /\ ops'[j] = Event("mark", ops'[j].c, TRUE)
               /\ SubC(ops'[j].c) = r.sub
               /\ j > 1 /\ IsCall(ops'[j - 1], "post", ops'[j].c, TRUE) ]_vars

\* C8 witness: a marker was written right after an acknowledged call.
C8_Witness ==
  \E c \in Ids :
    /\ Len(ops) = 3
    /\ ops[1] = Event("lookup", c, TRUE)
    /\ IsCall(ops[2], "post", c, TRUE)
    /\ ops[3] = Event("mark", c, TRUE)
    /\ RowC(c).backup_sent_at = SetTs(now_utc)

\* C9: a marker that is set is never changed by any step: the row keeps it
\* or is deleted; and a visit that finds the marker set issues no UPDATE.
C9_MarkerWrittenOnce ==
  [][ /\ \A r \in rows : \A r2 \in rows' :
           (r.backup_sent_at.set /\ r2.sub = r.sub) =>
             r2.backup_sent_at = r.backup_sent_at
      /\ (Visiting /\ HasRow(Head(queue)) /\ RowC(Head(queue)).backup_sent_at.set) =>
           ~Called(ops', "mark") ]_vars

\* C9 witness: a sweep later than the one that wrote the marker read the
\* row and left the marker as it was.
C9_Witness ==
  \E c \in Ids :
    /\ ops = <<Event("lookup", c, TRUE)>>
    /\ RowC(c).backup_sent_at.set
    /\ RowC(c).backup_sent_at.at < now_utc

\* C10: an iteration whose webhook call failed makes that call once, issues
\* no UPDATE and leaves the registry as it was, and the container is not
\* visited again in that sweep; a later visit that finds the container in
\* the window, reads its row and finds the marker null calls the webhook
\* again.
C10_FailedCallRetriedNextSweep ==
  [][ /\ (Visiting /\ HasOp(ops', "post", FALSE)) =>
           /\ Cardinality(Idx(ops', "post")) = 1
           /\ ~Called(ops', "mark")
           /\ rows' = rows
           /\ \A k \in DOMAIN queue' : queue'[k] # Head(queue)
      /\ (Visiting /\ lastHook[Head(queue)] = "fail" /\ InWin(Head(queue))
             /\ HasOp(ops', "lookup", TRUE)
             /\ ~RowC(Head(queue)).backup_sent_at.set) =>
           Called(ops', "post") ]_vars

\* C10 witness: after a failed call the marker is null and a later sweep is
\* about to visit the container, still inside the window.
C10_Witness ==
  /\ Visiting
  /\ lastHook[Head(queue)] = "fail"
  /\ InWin(Head(queue))
  /\ HasRow(Head(queue)) /\ ~RowC(Head(queue)).backup_sent_at.set
  /\ ops = <<>>

C12_SweepsForEver ==
  /\ []<>(pc = "start")
  /\ []<>(pc = "sleep")
  /\ [][/\ pc' = "start" => pc \in {"start", "sleep"}
        /\ (pc # "loop" /\ pc' = "loop") => (pc = "start" /\ queue' = Listing(1))
        /\ pc' \in {"start", "loop", "sleep"}]_vars

\* C12 witness: a sweep has raised and the process is in its sleep, after
\* earlier sweeps that returned (one of them removed a container).
C12_Witness ==
  /\ pc = "sleep" /\ printed = <<>>
  /\ \E c \in Ids : cstate[c] = "gone"

\* A container without ownership signal, in the claim's words: neither
\* ownership label is "true" and the name does not start with n8n_u-.
NoOwnershipSignal(c) ==
  /\ ~(cont[c].labels.ws_new.has /\ cont[c].labels.ws_new.s = "true")
  /\ ~(cont[c].labels.ws_old.has /\ cont[c].labels.ws_old.s = "true")
  /\ ~(Len(cont[c].name) >= 2 /\ cont[c].name[1] = "n8n_" /\ cont[c].name[2] = "u-")

\* C13: a container without ownership signal is never acted on: visiting
\* it makes no call at all (no removal, no volume call, no registry read or
\* write, no webhook call), leaves containers, volumes and rows as they were
\* and raises only the total counter; so it is never gone and no call of
\* any iteration names it, whatever its subdomain and expiry labels say.
C13_NoSignalNeverActedOn ==
  /\ [](\A c \in Ids : NoOwnershipSignal(c) =>
          /\ cstate[c] = "running"
          /\ \A i \in DOMAIN ops : ops[i].c # c)
  /\ [][(Visiting /\ NoOwnershipSignal(Head(queue))) =>
          /\ ops' = <<>>
          /\ cstate' = cstate /\ vols' = vols /\ rows' = rows
          /\ lastHook' = lastHook
          /\ total' = total + 1
          /\ with_sub' = with_sub /\ expired' = expired]_vars

\* C13 witness: the first container of a sweep was one without ownership
\* signal whose expiry label is past and whose subdomain label is set; the
\* sweep has visited it and it runs on.
C13_Witness ==
  /\ NoOwnershipSignal(1) /\ PastExpiry(1) /\ SubC(1) = SubOf(1)
  /\ now_utc > 0
  /\ pc = "loop" /\ total = 1 /\ with_sub = 0 /\ ops = <<>>
  /\ cstate[1] = "running"

\* A label value that gives no date: absent, empty, or text that
\* fromisoformat rejects once the trailing Z letters are stripped.
NoDate(lv) == ~lv.has \/ lv.s.kind # "iso"
NoResolvableExpiry(c) ==
  NoDate(cont[c].labels.exp_new) /\ NoDate(cont[c].labels.exp_old)

\* C14: a workspace-owned container whose expiry label gives no date under
\* either key is skipped by every sweep: visiting it makes no call (no
\* teardown, no registry lookup, no webhook call), changes nothing, keeps the
\* sweep in its loop, and raises total and with_sub but not expired; so the
\* container, its volume and its row are there for ever.
C14_NoExpiryIsSkipped ==
  /\ [](\A c \in Ids : (IsWs(c) /\ NoResolvableExpiry(c)) =>
          /\ cstate[c] = "running"
          /\ volume_name_for(SubC(c)) \in vols
          /\ cont[c].registered => (HasRow(c) /\ ~RowC(c).backup_sent_at.set)
          /\ \A i \in DOMAIN ops : ops[i].c # c)
  /\ [][(Visiting /\ IsWs(Head(queue)) /\ NoResolvableExpiry(Head(queue))) =>
          /\ ops' = <<>>
          /\ cstate' = cstate /\ vols' = vols /\ rows' = rows
          /\ pc' = "loop"
          /\ total' = total + 1
          /\ with_sub' = with_sub + 1
          /\ expired' = expired]_vars

\* C14 witness: at the last tick a sweep has just visited a workspace whose
\* new-key expiry label is empty and whose old-key one does not parse.
C14_Witness ==
  /\ IsWs(1)
  /\ cont[1].labels.exp_new = Str(EmptyTs)
  /\ cont[1].labels.exp_old = Str(Junk(1))
  /\ now_utc = MaxTime
  /\ pc = "loop" /\ total = 1 /\ with_sub = 1 /\ expired = 0 /\ ops = <<>>
  /\ cstate[1] = "running"

\* trigger_backup was called in the iteration whose calls are es: it either
\* posted to the webhook or returned at once for want of a URL.
Triggered(es) == Called(es, "post") \/ Called(es, "no_url")

\* C15: visiting a workspace container with a subdomain, (a) the registry
\* lookup is made exactly when 0 < expires_at - now <= 10 minutes, and
\* trigger_backup is called exactly when, besides, the lookup returned a row
\* and the row's backup_sent_at is null; (b) with expires_at - now above 10
\* minutes the iteration makes no call and changes nothing; (c) inside the
\* window with backup_sent_at already set there is no webhook call and no
\* registry write.
C15_BackupWindow ==
  [][\A c \in Ids :
       (Visiting /\ Head(queue) = c /\ IsWs(c) /\ SubC(c) # <<>>) =>
         /\ Called(ops', "lookup") <=> InWin(c)
         /\ Triggered(ops') <=>
              /\ InWin(c)
              /\ HasOp(ops', "lookup", TRUE)
              /\ HasRow(c) /\ ~RowC(c).backup_sent_at.set
         /\ (ExpOf(c).some
             /\ (ExpOf(c).t - now_utc) * MinPerTick > BackupWindowMin) =>
              /\ ops' = <<>>
              /\ cstate' = cstate /\ vols' = vols /\ rows' = rows
         /\ (InWin(c) /\ HasRow(c) /\ RowC(c).backup_sent_at.set) =>
              /\ ~Triggered(ops') /\ ~Called(ops', "mark")
              /\ rows' = rows]_vars

\* C15 witness: trigger_backup posted for a container whose expiry is
\* exactly 10 minutes after now_utc.
C15_Witness ==
  /\ pc = "loop" /\ Len(ops) >= 2
  /\ ops[1].op = "lookup" /\ ops[1].ok
  /\ ops[2].op = "post"
  /\ ExpOf(ops[1].c).some
  /\ (ExpOf(ops[1].c).t - now_utc) * MinPerTick = BackupWindowMin

\* C16: every workspace-owned container whose labels give an expiry is
\* eventually removed, and stays removed, whatever sweeps raised and
\* whatever removal attempts failed before (removal never precedes the
\* expiry: C1).
C16_ExpiredEventuallyRemoved ==
  <>[](\A c \in Ids : (IsWs(c) /\ ExpOf(c).some) => cstate[c] = "gone")

\* C16 witness: a container is removed by a sweep that runs after its
\* expiry instant, no earlier sweep having removed it.
C16_Witness ==
  /\ pc = "loop" /\ Len(ops) > 0
  /\ ops[1] = Event("remove", ops[1].c, TRUE)
  /\ ExpOf(ops[1].c).t < now_utc
  /\ \A c \in Ids : (IsWs(c) /\ ExpOf(c).some) => cstate[c] = "gone"

\* The calls to the container runtime among es.
IsRuntimeOp(e) == e.op \in {"remove", "volget", "volrm"}
RuntimeOps(es) == SelectSeq(es, IsRuntimeOp)

\* C17: what an iteration does to containers and volumes is what the same
\* iteration does against an empty registry, given the same answers of the
\* container runtime: the teardown is made exactly when the label expiry is
\* at or before now_utc, and its runtime calls and their effect are those of
\* stop_and_wipe run with no row at all, whatever rows exist, whatever they
\* hold and whether the registry answers.  Two runs that differ only in the
\* registry therefore remove the same containers and volumes in the same
\* sweeps.
C17_TeardownIgnoresRegistry ==
  [][\A c \in Ids : (Visiting /\ Head(queue) = c) =>
       IF IsWs(c) /\ SubC(c) # <<>> /\ PastExpiry(c)
       THEN \E o \in OutcomesFor("expired") :
              /\ RuntimeOps(ops') = RuntimeOps(stop_and_wipe(c, cstate, vols, {}, o).ops)
              /\ cstate' = stop_and_wipe(c, cstate, vols, {}, o).cstate
              /\ vols' = stop_and_wipe(c, cstate, vols, {}, o).vols
       ELSE /\ RuntimeOps(ops') = <<>>
            /\ cstate' = cstate /\ vols' = vols]_vars

\* C17 witness: one sweep has removed two containers of the same label
\* expiry, one registered (its row still there, the DELETE having failed)
\* and one the registry never knew.
C17_Witness ==
  /\ pc = "loop" /\ expired = 2
  /\ cstate[1] = "gone" /\ cstate[2] = "gone"
  /\ ExpOf(1) = ExpOf(2)
  /\ cont[1].registered /\ HasRow(1)
  /\ ~cont[2].registered /\ ~HasRow(2)

\* C18: with no webhook URL configured no HTTP call is ever made and no
\* backup_sent_at is ever written or set; a call of trigger_backup returns
\* at once and the sweep goes on; and the teardown of an expired container
\* is stop_and_wipe's, the same calls with the same effect on container,
\* volume and row, in which the URL has no part.
C18_NoUrlNoCall ==
  /\ [](~url => /\ ~Called(ops, "post") /\ ~Called(ops, "mark")
                 /\ \A r \in rows : ~r.backup_sent_at.set)
  /\ [][\A c \in Ids : (Visiting /\ Head(queue) = c) =>
          /\ (~url /\ Called(ops', "no_url")) =>
               /\ ops' = <<Event("lookup", c, TRUE), Event("no_url", c, FALSE)>>
               /\ rows' = rows /\ pc' = "loop"
          /\ (IsWs(c) /\ SubC(c) # <<>> /\ PastExpiry(c)) =>
               \E o \in OutcomesFor("expired") :
                 /\ ops' = stop_and_wipe(c, cstate, vols, rows, o).ops
                 /\ cstate' = stop_and_wipe(c, cstate, vols, rows, o).cstate
                 /\ vols' = stop_and_wipe(c, cstate, vols, rows, o).vols
                 /\ rows' = stop_and_wipe(c, cstate, vols, rows, o).rows]_vars

\* C18 witness: without URL, a sweep has torn down the first container with
\* its volume and row, and its call of trigger_backup for the second one,
\* inside the window with a null marker, has returned without HTTP call.
C18_Witness ==
  /\ ~url
  /\ cstate[1] = "gone" /\ VolOf(1) \notin vols /\ cont[1].registered /\ ~HasRow(1)
  /\ ops = <<Event("lookup", 2, TRUE), Event("no_url", 2, FALSE)>>
  /\ InWin(2) /\ HasRow(2) /\ ~RowC(2).backup_sent_at.set

\* What a response body is: whether it parses as JSON and to what, and the
\* value of its ok field.
JsonKind(b) ==
  IF b = "not_json" THEN "none" ELSE IF b = "list" THEN "array" ELSE "object"
OkValue(b) ==
  IF b = "ok_true" THEN "true" ELSE IF b = "ok_one" THEN "1"
  ELSE IF b = "ok_false" THEN "false" ELSE "absent"

\* C19: with a URL configured, trigger_backup returns success exactly when
\* requests.post returned (no network error or timeout), the status is 200,
\* and the body parses as a JSON object whose ok field is true itself; for
\* every other response it returns failure, and it returns for every
\* response (a call that has not returned can return).
C19_SuccessIffOkTrue ==
  /\ (arg.fn = "trigger_backup" /\ ret.done /\ arg.hasUrl) =>
       /\ ret.posted
       /\ ret.ok <=> /\ ~arg.resp.exc
                     /\ arg.resp.status = 200
                     /\ JsonKind(arg.resp.body) = "object"
                     /\ OkValue(arg.resp.body) = "true"
  /\ (arg.fn = "trigger_backup" /\ ~ret.done) => ENABLED Call_trigger_backup

\* C19 witness: status 200 with the body {"ok": 1} has been answered with
\* failure.
C19_Witness ==
  /\ arg.fn = "trigger_backup" /\ arg.hasUrl /\ ret.done
  /\ ~arg.resp.exc /\ arg.resp.status = 200 /\ arg.resp.body = "ok_one"
  /\ ~ret.ok

\* C20: is_workspace returns true exactly when the new-key ownership label
\* is "true", or the old-key ownership label is "true", or the name starts
\* with n8n_u-, for every combination of the two labels' values (absent,
\* empty, "true", "false", other) and of the name; in particular a "true"
\* under one key is enough whatever the other key holds.
C20_TrueLabelOrNamePattern ==
  (arg.fn = "is_workspace" /\ ret.done) =>
    (ret.ok <=>
       \/ arg.labels.ws_new = Str("true")
       \/ arg.labels.ws_old = Str("true")
       \/ (Len(arg.name) >= 2 /\ arg.name[1] = "n8n_" /\ arg.name[2] = "u-"))

\* The subdomain the claim names for labels and a name: the new label if
\* non-empty, else the old label if non-empty, else the name without its
\* n8n_ prefix.
SubdomainInOrder(labels, name) ==
  IF labels.sub_new.has /\ labels.sub_new.s # <<>> THEN labels.sub_new.s
  ELSE IF labels.sub_old.has /\ labels.sub_old.s # <<>> THEN labels.sub_old.s
  ELSE IF Len(name) >= 1 /\ name[1] = "n8n_" THEN Tail(name)
  ELSE name

\* C21: get_subdomain returns the new-key label if non-empty, else the
\* old-key label if non-empty, else the name without the n8n_ prefix; and
\* stop_and_wipe on the same container removes exactly the volume
\* n8n_<that subdomain>_data and deletes exactly the row keyed by that
\* subdomain.
C21_SubdomainOrderAndTargets ==
  (arg.fn = "get_subdomain" /\ ret.done) =>
    /\ ret.val = SubdomainInOrder(arg.labels, arg.name)
    /\ cstate[1] = "gone"
    /\ vols = {<<"n8n_">> \o x \o <<"_data">> : x \in AllSubs \ {ret.val}}
    /\ RowSubs(rows) = AllSubs \ {ret.val}

\* C21 witness: both labels are set, to different subdomains, and the new
\* key's one was returned and torn down.
C21_Witness ==
  /\ arg.fn = "get_subdomain" /\ ret.done
  /\ arg.labels.sub_new = Str(<<"u-", "a">>)
  /\ arg.labels.sub_old = Str(<<"u-", "b">>)
  /\ ret.val = <<"u-", "a">>
  /\ volume_name_for(<<"u-", "a">>) \notin vols

\* The names of the calls es, in order.
OpNames(es) == [i \in DOMAIN es |-> es[i].op]

\* The calls an iteration on container c makes, as a function of the
\* inventory (labels, name, which volumes exist), the registry, the URL
\* setting, now_utc and the answers es of the calls themselves.
CallsFromExternalState(c, es) ==
  IF ~(IsWs(c) /\ SubC(c) # <<>> /\ ExpOf(c).some) THEN <<>>
  ELSE IF PastExpiry(c)
  THEN <<"remove", "volget">>
       \o (IF HasOp(es, "volget", TRUE) THEN <<"volrm">> ELSE <<>>)
       \o <<"rowdel">>
  ELSE IF ~InWin(c) THEN <<>>
  ELSE <<"lookup">>
       \o (IF HasOp(es, "lookup", TRUE) /\ ~RowC(c).backup_sent_at.set
           THEN <<IF url THEN "post" ELSE "no_url">> ELSE <<>>)
       \o (IF HasOp(es, "post", TRUE) THEN <<"mark">> ELSE <<>>)

\* C22: the janitor carries nothing from one sweep to the next: whenever the
\* main loop is about to call sweep_once, the process holds what a process
\* just started holds (counters at zero, no call made, no line pending);
\* and the calls of every iteration are the function of the inventory, the
\* registry, now_utc and the calls' own answers that a first sweep would
\* make, whatever sweeps ran before and however they ended.
C22_NoStateBetweenSweeps ==
  /\ [](pc = "start" =>
          /\ total = 0 /\ with_sub = 0 /\ expired = 0
          /\ ops = <<>> /\ printed = <<>>)
  /\ [][pc = "start" => (pc' = "loop" => queue' = Listing(1))]_vars
  /\ [][\A c \in Ids : (Visiting /\ Head(queue) = c) =>
          OpNames(ops') = CallsFromExternalState(c, ops')]_vars

\* C22 witness: after a sweep that removed a container and one whose webhook
\* call failed, the process is at the loop's head as a fresh one would be.
C22_Witness ==
  /\ pc = "start" /\ now_utc > 0
  /\ \E c \in Ids : cstate[c] = "gone"
  /\ \E c \in Ids : lastHook[c] = "fail" /\ InWin(c)

\* Nothing of workspace 1 is left, and the other workspace's volume and row
\* are as they were.
TornDown ==
  /\ cstate[1] = "gone"
  /\ vols = {volume_name_for(OtherSub)}
  /\ rows = {RowFor(OtherSub)}

\* C23: stop_and_wipe on a workspace of which the container, the volume
\* and/or the row are already gone returns without raising; if all three are
\* gone it changes nothing in the runtime and the registry; a run whose
\* calls all succeed leaves nothing of the workspace whatever was gone
\* before, and a second run, with any answers, ends in that same state.
C23_TeardownIdempotent ==
  /\ []((arg.fn = "stop_and_wipe" /\ ret.done) => ret.ok)
  /\ []((arg.fn = "stop_and_wipe" /\ Len(ret.val) < MaxCalls)
          => ENABLED Call_stop_and_wipe)
  /\ []((arg.fn = "stop_and_wipe" /\ \E k \in DOMAIN ret.val : ret.val[k])
          => TornDown)
  /\ [][(arg.fn = "stop_and_wipe" /\ TornDown) =>
          (cstate' = cstate /\ vols' = vols /\ rows' = rows)]_vars

\* C23 witness: a second run, all of whose calls were answered, found the
\* container and the volume gone after a first complete one.
C23_Witness ==
  /\ arg.fn = "stop_and_wipe" /\ ret.val = <<TRUE, TRUE>>
  /\ ops = <<Event("remove", 1, FALSE), Event("volget", 1, FALSE),
             Event("rowdel", 1, TRUE)>>
  /\ TornDown

\* C24: for a workspace inside the window, a lookup that fails or finds no
\* row is the iteration's only call: no webhook call, no call of
\* trigger_backup at all, no registry write, nothing changed, and the sweep
\* goes on with the next container.  Without a row the lookup cannot but
\* answer "not found".
C24_LookupFailureSkipsBackup ==
  [][\A c \in Ids : (Visiting /\ Head(queue) = c) =>
       /\ (IsWs(c) /\ SubC(c) # <<>> /\ InWin(c) /\ ~HasRow(c)) =>
            HasOp(ops', "lookup", FALSE)
       /\ HasOp(ops', "lookup", FALSE) =>
            /\ ops' = <<Event("lookup", c, FALSE)>>
            /\ rows' = rows /\ cstate' = cstate /\ vols' = vols
            /\ lastHook' = lastHook
            /\ pc' = "loop" /\ queue' = Tail(queue)]_vars

\* C24 witness: in one sweep the lookup for the first workspace, which the
\* registry does not know, found no row, and the lookup for the second,
\* whose row is there, failed; the sweep is still in its loop.
C24_Witness ==
  /\ pc = "loop" /\ total = 2
  /\ IsWs(1) /\ InWin(1) /\ ~HasRow(1)
  /\ InWin(2) /\ HasRow(2) /\ ~RowC(2).backup_sent_at.set
  /\ ops = <<Event("lookup", 2, FALSE)>>

Existing == {c \in Ids : cstate[c] # "gone"}
InSeq(q) == {q[i] : i \in DOMAIN q}
Bit(b) == IF b THEN 1 ELSE 0

\* C26: a sweep starts with its three counters at zero and enumerates every
\* container the runtime holds, running or stopped, each once; every
\* iteration adds one to total, one to with_sub exactly when the container
\* is a workspace with a non-empty subdomain, and one to expired exactly when
\* the teardown is invoked, whether or not the removal succeeds; the sweep
\* ends, with one summary line carrying the three counters, only when the
\* enumeration is used up, and a line is printed at no other step.  Hence
\* expired <= with_sub <= total at all times, at most one line stands per
\* sweep, and total less the teardowns invoked is at most the number of
\* containers left, which is at most total.
C26_SummaryCounters ==
  /\ [][ /\ (pc = "start" /\ pc' = "loop") =>
              /\ total = 0 /\ with_sub = 0 /\ expired = 0
              /\ InSeq(queue') = Existing
              /\ Len(queue') = Cardinality(Existing)
         /\ (Visiting /\ queue' # queue) =>
              LET c == Head(queue)
              IN  /\ queue' = Tail(queue)
                  /\ total' = total + 1
                  /\ with_sub' = with_sub + Bit(IsWs(c) /\ SubC(c) # <<>>)
                  /\ expired' = expired + Bit(Called(ops', "remove"))
         /\ (pc = "loop" /\ pc' # "loop") =>
              /\ queue = <<>>
              /\ printed' = <<[total |-> total, with_sub |-> with_sub,
                               expired |-> expired]>>
         /\ (printed' # printed /\ printed' # <<>>) => (pc = "loop" /\ pc' = "sleep")
         /\ (pc = "start" /\ pc' = "sleep") => printed' = <<>>
       ]_vars
  /\ [](/\ expired <= with_sub /\ with_sub <= total
        /\ Len(printed) <= 1
        /\ pc = "loop" => (/\ total + Len(queue) - expired <= Cardinality(Existing)
                           /\ Cardinality(Existing) <= total + Len(queue))
        /\ printed # <<>> =>
             /\ pc = "sleep"
             /\ printed[1].expired <= printed[1].with_sub
             /\ printed[1].with_sub <= printed[1].total
             /\ printed[1].total - printed[1].expired <= Cardinality(Existing)
             /\ Cardinality(Existing) <= printed[1].total)

\* A completed sweep over two workspaces, one of them stopped: the teardown
\* of one was invoked and its removal failed, and the line counts it.
C26_Witness ==
  /\ pc = "sleep"
  /\ printed = <<[total |-> NumContainers, with_sub |-> 2, expired |-> 1]>>
  /\ Cardinality(Existing) = NumContainers
  /\ \E c \in Ids : cstate[c] = "stopped"

\* The step is a stop request of the API that changed something.
StopStep == pc' = pc /\ queue' = queue /\ (cstate' # cstate \/ rows' # rows)

\* C27: with stop requests of the API arriving at any point of the janitor's
\* run, (a) a stop request changes nothing but a running container to
\* stopped and a row's status to stopping, and leaves the enumeration in
\* progress as it is; (b) every sweep enumerates the stopped containers along
\* with the running ones; (c) the calls an iteration makes are those that
\* labels, name, volumes, registry and now_utc determine, whether the
\* container is running or stopped; (d) for a workspace container with a
\* subdomain whose expiry has passed that means container removal, volume
\* lookup and row DELETE, and when these calls succeed the container, its
\* volume and its row are gone.
C27_StoppedStillReaped ==
  [][ /\ StopStep =>
           /\ \A c \in Ids : cstate'[c] # cstate[c] =>
                               (cstate[c] = "running" /\ cstate'[c] = "stopped")
           /\ RowSubs(rows') = RowSubs(rows)
           /\ \A r \in rows' \ rows :
                /\ r.status = "stopping"
                /\ \E q \in rows : q.sub = r.sub /\ r = [q EXCEPT !.status = "stopping"]
           /\ UNCHANGED <<cont, vols, now_utc, ops, total, with_sub, expired, printed>>
      /\ (pc = "start" /\ pc' = "loop") =>
           \A c \in Ids : cstate[c] \in {"running", "stopped"} => c \in InSeq(queue')
      /\ (Visiting /\ queue' # queue) =>
           LET c == Head(queue)
               volume == volume_name_for(SubC(c))
           IN  /\ OpNames(ops') = CallsFromExternalState(c, ops')
               /\ (IsWs(c) /\ SubC(c) # <<>> /\ PastExpiry(c)) =>
                    /\ Called(ops', "remove") /\ Called(ops', "volget")
                    /\ Called(ops', "rowdel")
                    /\ (volume \in vols /\ HasOp(ops', "volget", TRUE)) =>
                         Called(ops', "volrm")
                    /\ (\A i \in DOMAIN ops' :
                          ops'[i].ok \/ (ops'[i].op = "volget" /\ volume \notin vols)) =>
                         /\ cstate'[c] = "gone"
                         /\ volume \notin vols'
                         /\ SubC(c) \notin RowSubs(rows')
    ]_vars

\* A stopped workspace container past its expiry was enumerated and its
\* teardown invoked: the runtime refused the removal, so the container is
\* still there, stopped, and its volume and its row are gone.
C27_Witness ==
  /\ pc = "loop"
  /\ \E c \in Ids :
       /\ cstate[c] = "stopped" /\ IsWs(c) /\ PastExpiry(c)
       /\ ops # <<>> /\ \A i \in DOMAIN ops : ops[i].c = c
       /\ HasOp(ops, "remove", FALSE) /\ HasOp(ops, "volrm", TRUE)
       /\ HasOp(ops, "rowdel", TRUE)
       /\ VolOf(c) \notin vols /\ ~HasRow(c)

\* C28: (a) no step of the janitor creates or alters anything: a container
\* only ever goes from existing to gone, volumes and rows only disappear,
\* labels and names stay, and a row that stays keeps its subdomain, status,
\* owner email and expires_at, only backup_sent_at can change; (b) a step
\* that is no teardown removes nothing, and changes backup_sent_at only in
\* the row of the visited container's subdomain; (c) a teardown of
\* container c leaves every other container as it is, removes no volume but
\* n8n_<sub of c>_data and no row but the one keyed by c's subdomain, and
\* alters no row.
C28_TeardownFrame ==
  [][ /\ cont' = cont
      /\ \A d \in Ids : cstate'[d] # cstate[d] =>
                          (cstate[d] # "gone" /\ cstate'[d] = "gone")
      /\ vols' \subseteq vols
      /\ \A r2 \in rows' :
           \E r \in rows : r2 = [r EXCEPT !.backup_sent_at = r2.backup_sent_at]
      /\ (cstate' # cstate \/ vols' # vols \/ rows' # rows) => Visiting
      /\ (Visiting /\ ~Called(ops', "remove")) =>
           /\ cstate' = cstate /\ vols' = vols
           /\ RowSubs(rows') = RowSubs(rows)
           /\ \A r \in rows : r.sub # SubC(Head(queue)) => r \in rows'
      /\ (Visiting /\ Called(ops', "remove")) =>
           LET c == Head(queue)
           IN  /\ \A d \in Ids \ {c} : cstate'[d] = cstate[d]
               /\ vols \ vols' \subseteq {volume_name_for(SubC(c))}
               /\ rows' \subseteq rows
               /\ \A r \in rows \ rows' : r.sub = SubC(c)
    ]_vars

\* A teardown has removed a workspace's container, volume and row; the
\* other workspace's container, volume and row, its backup marker set in an
\* earlier sweep, are as they were.
C28_Witness ==
  /\ pc = "loop"
  /\ \E c \in Ids : \E d \in Ids \ {c} :
       /\ HasOp(ops, "remove", TRUE) /\ \A i \in DOMAIN ops : ops[i].c = c
       /\ cstate[c] = "gone" /\ VolOf(c) \notin vols /\ ~HasRow(c)
       /\ cstate[d] = "running" /\ VolOf(d) \in vols
       /\ HasRow(d) /\ RowC(d) = [RowOf(d) EXCEPT !.backup_sent_at = RowC(d).backup_sent_at]
       /\ RowC(d).backup_sent_at.set

\* The legacy sweep has just invoked its teardown on Head(queue).
LegacyTeardownStep == Visiting /\ queue' # queue /\ Called(ops', "remove")

\* What the current sweep's iteration does from the same state, on the same
\* container and with the same answers of the runtime.
CurrentOn(c) ==
  LoopBody(c, [AllGood EXCEPT !.rm = HasOp(ops', "remove", TRUE),
                              !.vget = HasOp(ops', "volget", TRUE)
                                       \/ ~Called(ops', "volrm"),
                              !.vrm = HasOp(ops', "volrm", TRUE)])
SameTeardown(c) ==
  /\ Called(CurrentOn(c).ops, "remove")
  /\ CurrentOn(c).cstate = cstate'
  /\ CurrentOn(c).vols = vols'

\* The container carries a subdomain and an expiry under the legacy keys
\* and neither under the current ones.
OnlyLegacyKeys(c) ==
  /\ ~TruthySeq(cont[c].labels.sub_new)
  /\ ~TruthyTs(cont[c].labels.exp_new)

\* C29 as claimed: whenever the legacy sweep tears down a container that
\* carries the legacy keys only, the current sweep, run on the same
\* inventory at the same now, tears the same container down and removes the
\* volume of the same name.
C29_LegacyTeardownsKept ==
  [][(LegacyTeardownStep /\ OnlyLegacyKeys(Head(queue)))
       => SameTeardown(Head(queue))]_vars

\* C29, amended: the same holds for those of these containers that the
\* current sweep classifies as workspaces, by an ownership label "true" or
\* by a name that starts with n8n_u-; the others it leaves alone.
C29_LegacyTeardownsKeptForWorkspaces ==
  [][(LegacyTeardownStep /\ OnlyLegacyKeys(Head(queue)))
       => IF IsWs(Head(queue)) THEN SameTeardown(Head(queue))
          ELSE /\ CurrentOn(Head(queue)).ops = <<>>
               /\ CurrentOn(Head(queue)).cstate = cstate
               /\ CurrentOn(Head(queue)).vols = vols]_vars

\* The legacy sweep has removed the container and the volume of a workspace
\* with legacy labels only, which the current sweep knows by its name.
C29_Witness ==
  /\ pc = "loop"
  /\ \E c \in Ids :
       /\ cont[c] = OldGen(c, Absent)
       /\ HasOp(ops, "remove", TRUE) /\ HasOp(ops, "volrm", TRUE)
       /\ \A i \in DOMAIN ops : ops[i].c = c
       /\ cstate[c] = "gone" /\ VolOf(c) \notin vols

\* The row the registry holds for the visited container has neither owner
\* email nor backup marker.
NullEmailRow(c) ==
  /\ HasRow(c)
  /\ RowC(c).email = NullEmail
  /\ ~RowC(c).backup_sent_at.set

\* C30: visiting a workspace inside the backup window whose lookup returns
\* a row with a null owner email and a null backup_sent_at, the sweep calls
\* trigger_backup all the same: with the URL set the webhook is posted, its
\* payload carrying the subdomain and a null user_email; when the call is
\* acknowledged the UPDATE of backup_sent_at is issued, and the marker is set
\* when the UPDATE succeeds.
C30_NullEmailNotGuarded ==
  [][ (/\ Visiting /\ queue' # queue
       /\ IsWs(Head(queue)) /\ InWin(Head(queue))
       /\ NullEmailRow(Head(queue))
       /\ HasOp(ops', "lookup", TRUE)) =>
        LET c == Head(queue)
        IN  /\ Triggered(ops')
            /\ url => /\ Len(ops') >= 2
                      /\ ops'[2].op = "post"
                      /\ ops'[2].json.user_email = NullEmail
                      /\ ops'[2].json.workspace_subdomain = SubC(c)
            /\ HasOp(ops', "post", TRUE) => Called(ops', "mark")
            /\ HasOp(ops', "mark", TRUE) =>
                 \E r \in rows' : /\ r.sub = SubC(c)
                                  /\ r.email = NullEmail
                                  /\ r.backup_sent_at = SetTs(now_utc)
    ]_vars

\* The webhook was called with a null user_email and acknowledged, and the
\* row, its email still null, is marked.
C30_Witness ==
  /\ pc = "loop" /\ Len(ops) = 3
  /\ ops[1].op = "lookup" /\ ops[1].ok
  /\ ops[2].op = "post" /\ ops[2].ok /\ ops[2].json.user_email = NullEmail
  /\ ops[3].op = "mark" /\ ops[3].ok
  /\ \E r \in rows : /\ r.sub = SubC(ops[1].c)
                     /\ r.email = NullEmail
                     /\ r.backup_sent_at = SetTs(now_utc)

====
